---- MODULE Spec2Model ----
(***************************************************************************)
(* State-machine model of the LRC video subtitle synchronizer (the React   *)
(* component App): the segment timeline, the text library, and the two     *)
(* LRC codecs (exportLRC, parseLRCFile + handleLrcImport).                  *)
(*                                                                         *)
(* Times are JavaScript numbers holding seconds; the model keeps them as   *)
(* integer milliseconds.  Strings are sequences of one-character strings,  *)
(* so that formatting, regex matching, trimming and splitting are computed *)
(* character by character as the code does.  Identifiers are naturals;     *)
(* NULL stands for JavaScript null.                                        *)
(***************************************************************************)
EXTENDS Integers, Sequences, FiniteSets, TLC

\* ------------------------------------------------------------------ units

\* One second, in the model's time unit (milliseconds).
MsPerSecond == 1000

\* The tolerance 0.01 s of handleLrcImport's entry lookup, in milliseconds.
Tolerance == 10

\* JavaScript null (textId: string | null).  Identifiers are >= 1.
NULL == 0

\* ---------------------------------------------------------------- strings

Digits == {"0", "1", "2", "3", "4", "5", "6", "7", "8", "9"}

DigitChars == <<"0", "1", "2", "3", "4", "5", "6", "7", "8", "9">>

DigitVal(c) == (CHOOSE i \in 1..10 : DigitChars[i] = c) - 1

\* The characters String.prototype.trim removes (those the model uses).
IsSpace(c) == c \in {" ", "\t", "\n", "\r"}

RECURSIVE TrimStart(_)
TrimStart(s) ==
  IF s # <<>> /\ IsSpace(Head(s)) THEN TrimStart(Tail(s)) ELSE s

RECURSIVE TrimEnd(_)
TrimEnd(s) ==
  IF s # <<>> /\ IsSpace(s[Len(s)]) THEN TrimEnd(SubSeq(s, 1, Len(s) - 1)) ELSE s

\* String.prototype.trim
Trim(s) == TrimEnd(TrimStart(s))

\* String.prototype.split('\n'): the pieces between newlines (always >= 1 piece).
RECURSIVE SplitLines(_)
SplitLines(s) ==
  IF \A i \in 1..Len(s) : s[i] # "\n"
    THEN <<s>>
    ELSE LET k == CHOOSE i \in 1..Len(s) :
                    s[i] = "\n" /\ \A j \in 1..(i - 1) : s[j] # "\n"
         IN  <<SubSeq(s, 1, k - 1)>> \o SplitLines(SubSeq(s, k + 1, Len(s)))

\* Array.prototype.join('\n')
RECURSIVE JoinLines(_)
JoinLines(ls) ==
  IF ls = <<>> THEN <<>>
  ELSE IF Len(ls) = 1 THEN ls[1]
  ELSE ls[1] \o <<"\n">> \o JoinLines(Tail(ls))

\* Number.prototype.toString of a non-negative integer.
RECURSIVE IntToStr(_)
IntToStr(n) ==
  IF n < 10 THEN <<DigitChars[n + 1]>>
  ELSE IntToStr(n \div 10) \o <<DigitChars[(n % 10) + 1]>>

\* String.prototype.padStart(width, '0')
RECURSIVE PadStart(_, _)
PadStart(s, width) ==
  IF Len(s) >= width THEN s ELSE PadStart(<<"0">> \o s, width)

\* parseInt of a string of decimal digits.
RECURSIVE ParseInt(_)
ParseInt(ds) ==
  IF ds = <<>> THEN 0
  ELSE 10 * ParseInt(SubSeq(ds, 1, Len(ds) - 1)) + DigitVal(ds[Len(ds)])

\* FracToMs with the fraction digits read as a whole number of
\* milliseconds: ".40" is 40.
FracToMsCounted(ds) ==
  LET d(i) == IF i <= Len(ds) THEN DigitVal(ds[i]) ELSE 0
  IN  IF Len(ds) = 1 THEN d(1)
      ELSE IF Len(ds) = 2 THEN 10 * d(1) + d(2)
      ELSE 100 * d(1) + 10 * d(2) + d(3)

\* The fraction digits of parseFloat, as milliseconds: ".4" is 400, ".40" is
\* 400, ".005" is 5.  Digits after the third are below the model's resolution
\* and dropped.
FracToMs(ds) ==
  LET d(i) == IF i <= Len(ds) THEN DigitVal(ds[i]) ELSE 0
  IN  100 * d(1) + 10 * d(2) + d(3)

\* ------------------------------------------------------- timestamp regex
\* /\[(\d+):(\d+(\.\d+)?)\]/g

\* First position >= i that holds no digit (Len(s) + 1 when the digits run
\* to the end): the end of a greedy \d* starting at i.
RECURSIVE DigitRunEnd(_, _)
DigitRunEnd(s, i) ==
  IF i <= Len(s) /\ s[i] \in Digits THEN DigitRunEnd(s, i + 1) ELSE i

CharAt(s, i) == IF i >= 1 /\ i <= Len(s) THEN s[i] ELSE ""

NoMatch == [ok |-> FALSE, next |-> 0, minutes |-> 0, ms |-> 0]

\* The match of the pattern anchored at position i of s, if any: next is the
\* position after the closing bracket, minutes is parseInt(match[1]) and ms
\* is parseFloat(match[2]) in milliseconds.
MatchTagAt(s, i) ==
  IF CharAt(s, i) # "[" THEN NoMatch
  ELSE
    LET a == i + 1
        b == DigitRunEnd(s, a)
        c == b + 1
        d == DigitRunEnd(s, c)
        e == d + 1
        f == DigitRunEnd(s, e)
    IN  IF b = a \/ CharAt(s, b) # ":" \/ d = c THEN NoMatch
        ELSE IF CharAt(s, d) = "]"
          THEN [ok |-> TRUE, next |-> d + 1,
                minutes |-> ParseInt(SubSeq(s, a, b - 1)),
                ms |-> MsPerSecond * ParseInt(SubSeq(s, c, d - 1))]
        ELSE IF CharAt(s, d) = "." /\ f > e /\ CharAt(s, f) = "]"
          THEN [ok |-> TRUE, next |-> f + 1,
                minutes |-> ParseInt(SubSeq(s, a, b - 1)),
                ms |-> MsPerSecond * ParseInt(SubSeq(s, c, d - 1))
                         + FracToMs(SubSeq(s, e, f - 1))]
        ELSE NoMatch

\* line.matchAll(pattern): the successive non-overlapping matches from i on.
RECURSIVE MatchAllFrom(_, _)
MatchAllFrom(s, i) ==
  IF i > Len(s) THEN <<>>
  ELSE LET m == MatchTagAt(s, i)
       IN  IF m.ok THEN <<m>> \o MatchAllFrom(s, m.next)
           ELSE MatchAllFrom(s, i + 1)

\* line.replace(pattern, ''): the characters outside every match.
RECURSIVE StripTagsFrom(_, _)
StripTagsFrom(s, i) ==
  IF i > Len(s) THEN <<>>
  ELSE LET m == MatchTagAt(s, i)
       IN  IF m.ok THEN StripTagsFrom(s, m.next)
           ELSE <<s[i]>> \o StripTagsFrom(s, i + 1)

\* A string literal as the model's sequence of one-character strings.
Chars(str) == [i \in 1..Len(str) |-> SubSeq(str, i, i)]

\* ---------------------------------------------------------- parseLRCFile

\* Array.prototype.find / findIndex: position of the first element for which
\* Test holds, 0 when there is none.
FindIndex(seq, Test(_)) ==
  IF \E i \in 1..Len(seq) : Test(seq[i])
    THEN CHOOSE i \in 1..Len(seq) :
           Test(seq[i]) /\ \A j \in 1..(i - 1) : ~Test(seq[j])
    ELSE 0

\* Array.prototype.map
MapSeq(seq, F(_)) == [i \in 1..Len(seq) |-> F(seq[i])]

RECURSIVE Flatten(_)
Flatten(ss) == IF ss = <<>> THEN <<>> ELSE Head(ss) \o Flatten(Tail(ss))

\* text.split('\n').filter(line => line.trim())
NonEmptyLines(text) ==
  SelectSeq(SplitLines(text), LAMBDA line : Trim(line) # <<>>)

\* LineEntries with line.match in place of line.matchAll: only the first
\* timestamp tag of a line gives an entry.
LineEntriesOfFirstTag(line) ==
  LET text == Trim(StripTagsFrom(line, 1))
      entryOf(m) == [time |-> m.minutes * 60 * MsPerSecond + m.ms, text |-> text]
      matches == MatchAllFrom(line, 1)
  IN  SelectSeq(MapSeq(SubSeq(matches, 1, IF matches = <<>> THEN 0 ELSE 1), entryOf),
                LAMBDA e : Len(e.text) > 0 \/ e.time > 0)

\* LineEntries with the test written text.length > 0 alone: a tag without
\* text gives no entry, whatever its time.
LineEntriesWithText(line) ==
  LET text == Trim(StripTagsFrom(line, 1))
      entryOf(m) == [time |-> m.minutes * 60 * MsPerSecond + m.ms, text |-> text]
  IN  SelectSeq(MapSeq(MatchAllFrom(line, 1), entryOf),
                LAMBDA e : Len(e.text) > 0)

\* The body of lines.forEach: the entries one line pushes, one per timestamp
\* tag, all with the line's text after every tag is removed and it is trimmed;
\* an entry is pushed only if that text is non-empty or its time is > 0.
LineEntries(line) ==
  LET text == Trim(StripTagsFrom(line, 1))
      entryOf(m) == [time |-> m.minutes * 60 * MsPerSecond + m.ms, text |-> text]
  IN  SelectSeq(MapSeq(MatchAllFrom(line, 1), entryOf),
                LAMBDA e : Len(e.text) > 0 \/ e.time > 0)

\* entries, as pushed, in file order.
PushedEntries(text) == Flatten(MapSeq(NonEmptyLines(text), LineEntries))

\* UniqueEntries with the key `${e.time}`: one entry per time.
UniqueEntriesByTime(entries) ==
  LET first(i) == \A j \in 1..(i - 1) : entries[j].time # entries[i].time
      keep == {i \in 1..Len(entries) : first(i)}
      RECURSIVE pick(_)
      pick(i) == IF i > Len(entries) THEN <<>>
                 ELSE (IF i \in keep THEN <<entries[i]>> ELSE <<>>) \o pick(i + 1)
  IN  pick(1)

\* Array.from(new Map(entries.map(e => [`${e.time}-${e.text}`, e])).values()):
\* one entry per key, at the position of the key's first occurrence.
UniqueEntries(entries) ==
  LET first(i) == \A j \in 1..(i - 1) : entries[j] # entries[i]
      keep == {i \in 1..Len(entries) : first(i)}
      RECURSIVE pick(_)
      pick(i) == IF i > Len(entries) THEN <<>>
                 ELSE (IF i \in keep THEN <<entries[i]>> ELSE <<>>) \o pick(i + 1)
  IN  pick(1)

\* Insert e after the last element whose time is <= e.time.
RECURSIVE InsertByTime(_, _)
InsertByTime(sorted, e) ==
  IF sorted = <<>> THEN <<e>>
  ELSE IF sorted[Len(sorted)].time <= e.time THEN Append(sorted, e)
  ELSE Append(InsertByTime(SubSeq(sorted, 1, Len(sorted) - 1), e),
              sorted[Len(sorted)])

\* uniqueEntries.sort((a, b) => a.time - b.time): stable, ascending by time.
RECURSIVE SortByTime(_)
SortByTime(entries) ==
  IF entries = <<>> THEN <<>>
  ELSE InsertByTime(SortByTime(SubSeq(entries, 1, Len(entries) - 1)),
                    entries[Len(entries)])

\* maxTime: the largest time of a pushed entry, 0 when none was pushed.
MaxTimeOf(entries) ==
  IF entries = <<>> THEN 0
  ELSE CHOOSE t \in {entries[i].time : i \in 1..Len(entries)} :
         \A i \in 1..Len(entries) : entries[i].time <= t

parseLRCFile(text) ==
  [entries |-> SortByTime(UniqueEntries(PushedEntries(text))),
   maxTime |-> MaxTimeOf(PushedEntries(text))]

\* ------------------------------------------------------------- exportLRC

\* (seconds % 60).toFixed(2) of a time in milliseconds: rounded to the
\* nearest hundredth, as "<whole seconds>.<two digits>".  Half a hundredth
\* (ms % 10 = 5) is rounded up here; toFixed rounds the binary value, which
\* lies just above or just below the half, so it gives this or the
\* hundredth below.
ToFixed2(ms) ==
  LET cs == (ms + 5) \div 10
  IN  IntToStr(cs \div 100) \o <<".">> \o PadStart(IntToStr(cs % 100), 2)

\* formatLrcTime without sRem.padStart(5, '0'): seconds below ten lose their
\* leading zero.
formatLrcTimeUnpadded(t) ==
  LET m == t \div (60 * MsPerSecond)
      sRem == ToFixed2(t % (60 * MsPerSecond))
  IN  <<"[">> \o PadStart(IntToStr(m), 2) \o <<":">> \o sRem \o <<"]">>

\* formatLrcTime
formatLrcTime(t) ==
  LET m == t \div (60 * MsPerSecond)
      sRem == ToFixed2(t % (60 * MsPerSecond))
  IN  <<"[">> \o PadStart(IntToStr(m), 2) \o <<":">> \o PadStart(sRem, 5) \o <<"]">>

\* block?.text || '' for the block a segment references.
BlockText(s, blocks) ==
  LET k == IF s.textId # NULL
             THEN FindIndex(blocks, LAMBDA b : b.id = s.textId) ELSE 0
  IN  IF k = 0 THEN <<>> ELSE blocks[k].text

\* lrcLines
ExportLines(segs, blocks) ==
  MapSeq(segs, LAMBDA s : formatLrcTime(s.startTime) \o BlockText(s, blocks))

\* The content of the file exportLRC downloads.
exportLRC(segs, blocks) == JoinLines(ExportLines(segs, blocks))

\* lrcLines of the exportLRC of the App without LRC import: only the segments
\* whose textId names a block of the library give a line.
ExportLines0(segs, blocks) ==
  MapSeq(SelectSeq(segs, LAMBDA s : s.textId # NULL
                          /\ FindIndex(blocks, LAMBDA b : b.id = s.textId) # 0),
         LAMBDA s : formatLrcTime(s.startTime) \o BlockText(s, blocks))

\* The content of the file that exportLRC downloads.
exportLRC0(segs, blocks) == JoinLines(ExportLines0(segs, blocks))

\* ------------------------------------------------------------------ bounds

\* The most segments splitSegment is let to build.
MaxSegments == 3

\* The most text blocks the user is let to add by hand.
MaxBlocks == 2

\* The most events of one session of the whole application (Spec).
MaxEvents == 6

\* The most events of one codec session (SpecCodec).
MaxCodecEvents == 7

\* The most events of one text library session (SpecLibrary).
MaxLibraryEvents == 6

\* The most events of one decode session (SpecDecode).
MaxDecodeEvents == 6

\* ------------------------------------------------------------ the inputs

\* Durations (ms) of the video files the user can select.
Durations == {10000, 15000}

\* Playback positions (ms) the video element reports: segment boundaries on
\* the hundredths grid (5000) and off it (4, 9996).
TimePoints == {0, 4, 5000, 9996}

\* The literal '新文本行...' addTextBlock gives a block created without text.
DefaultText == Chars("New line...")

\* What the user types into a text block's editor.
EditTexts == {Chars("Hi")}

\* What the user pastes into the bulk-import form.
BulkTexts == {Chars(" a \n\nb"), Chars(" \n ")}

\* The contents of the .lrc files the user can choose.
LrcFiles ==
  { Chars("[00:15.00]hello"),
    Chars("[00:05.00]a\n[00:05.00]b"),
    Chars("no tag\n[00:00.00]\n"),
    <<>> }

\* ------------------------------------------------------------------- state

VARIABLES
  video,         \* the <video> element behind videoRef: the selected file's
                 \* duration and whether its loadedmetadata event is due
  duration,      \* useState duration
  currentTime,   \* useState currentTime
  textBlocks,    \* useState textBlocks: sequence of [id, text]
  segments,      \* useState segments: sequence of [id, startTime, endTime, textId]
  lrcRead,       \* the handleLrcImport call suspended at `await file.text()`:
                 \* the duration its closure captured and the file's content
  alert,         \* the last window.alert shown, "none" before the first
  renderedSegments, \* segments as of the last committed render: the value
                 \* the closures of the handlers on screen hold
  renderedTextBlocks, \* textBlocks as of the last committed render: the
                 \* blocks on screen, whose buttons, editors and drag
                 \* handles carry their ids and indices
  error,         \* the error an updater threw while rendering ("none" if
                 \* none): uncaught, it unmounts the application
  download,      \* the content of the file the last event downloaded, <<>>
                 \* when it downloaded none
  lastEvent,     \* history: the handler that ran last
  splitFrom,     \* history: the segments before the last event if it was
                 \* a splitSegment that split a segment, or a mergeSegments
                 \* right after one; <<>> otherwise
  events         \* history: how many events the session has handled (it
                 \* bounds the sessions of Spec)

vars == <<video, duration, currentTime, textBlocks, segments, lrcRead, alert,
          renderedSegments, renderedTextBlocks, error, download, lastEvent,
          splitFrom, events>>

\* videoRef.current before any file is selected (the element is not rendered).
NoVideo == [duration |-> 0, pending |-> FALSE, present |-> FALSE]

\* No handleLrcImport call is suspended.
NoRead == [active |-> FALSE, duration |-> 0, text |-> <<>>]

\* ---------------------------------------------------------- identifiers

\* The ids of the sample text blocks, '1' and '2'.
SampleIds == {1, 2}

\* crypto.randomUUID(), n times: n distinct identifiers outside `used` that
\* are no sample id.  Identifiers are only ever compared for equality, so the
\* least unused naturals stand for them.
RECURSIVE FreshIds(_, _)
FreshIds(used, n) ==
  IF n = 0 THEN <<>>
  ELSE LET id == CHOOSE k \in 3..(Cardinality(used) + 4) :
                   k \notin used /\ \A j \in 3..(k - 1) : j \in used
       IN  <<id>> \o FreshIds(used \cup {id}, n - 1)

\* The segment ids in use: a new segment's id differs from all of them.
UsedSegmentIds(segs) == {segs[i].id : i \in 1..Len(segs)}

\* The text block ids in use, in the library or in a segment's textId: a
\* new block's id differs from all of them.  (Segment ids and block ids are
\* never compared with each other.)
UsedBlockIds(segs, blocks) ==
  {blocks[i].id : i \in 1..Len(blocks)} \cup {segs[i].textId : i \in 1..Len(segs)}

BlockIds(blocks) == {blocks[i].id : i \in 1..Len(blocks)}

SegmentIds(segs) == {segs[i].id : i \in 1..Len(segs)}

\* ------------------------------------------------------------------- Init

Init ==
  /\ video = NoVideo
  /\ duration = 0
  /\ currentTime = 0
  /\ textBlocks = <<>>
  /\ segments = <<>>
  /\ lrcRead = NoRead
  /\ alert = "none"
  /\ renderedSegments = <<>>
  /\ renderedTextBlocks = <<>>
  /\ error = "none"
  /\ download = <<>>
  /\ lastEvent = "none"
  /\ splitFrom = <<>>
  /\ events = 0

\* ------------------------------------------------------------ rendering

\* The handler ran in a discrete event (click, change, drop, keydown): React
\* renders its updates, and those still waiting, before the next event.
SyncRender ==
  /\ renderedSegments' = segments'
  /\ renderedTextBlocks' = textBlocks'

\* The handler ran in a default-priority event (a media event, the
\* continuation of an await): React renders its updates in a later task.
DeferredRender == UNCHANGED <<renderedSegments, renderedTextBlocks>>

\* The render React scheduled for the updates of default-priority events.
commitRender ==
  /\ renderedSegments # segments \/ renderedTextBlocks # textBlocks
  /\ renderedSegments' = segments
  /\ renderedTextBlocks' = textBlocks
  /\ UNCHANGED <<video, duration, currentTime, textBlocks, segments, lrcRead,
                 alert, error, download, lastEvent, splitFrom>>

\* ------------------------------------------------------ video handling

\* handleVideoUpload that starts a new project: it empties the text library
\* as well.
handleVideoUploadAnew(d) ==
  /\ video' = [duration |-> d, pending |-> TRUE, present |-> TRUE]
  /\ segments' = <<>>
  /\ textBlocks' = <<>>
  /\ lastEvent' = "handleVideoUpload"
  /\ splitFrom' = <<>>
  /\ download' = <<>>
  /\ UNCHANGED error
  /\ UNCHANGED <<duration, currentTime, lrcRead, alert>>
  /\ SyncRender

\* handleVideoUpload with a file of duration d chosen.
handleVideoUpload(d) ==
  /\ video' = [duration |-> d, pending |-> TRUE, present |-> TRUE]
  /\ segments' = <<>>
  /\ lastEvent' = "handleVideoUpload"
  /\ splitFrom' = <<>>
  /\ download' = <<>>
  /\ UNCHANGED error
  /\ UNCHANGED <<duration, currentTime, textBlocks, lrcRead, alert>>
  /\ SyncRender

\* InitialSegments with endTime read from the duration state of the first
\* render, 0, instead of from the video element.
InitialSegmentsStateDuration(d, id) ==
  <<[id |-> id, startTime |-> 0, endTime |-> 0, textId |-> NULL]>>

\* The segment list handleLoadedMetadata installs for duration d.
InitialSegments(d, id) ==
  <<[id |-> id, startTime |-> 0, endTime |-> d, textId |-> NULL]>>

\* handleLoadedMetadata: the element fires loadedmetadata once per load.
handleLoadedMetadata ==
  /\ video.present /\ video.pending
  /\ video' = [video EXCEPT !.pending = FALSE]
  /\ duration' = video.duration
  /\ segments' = InitialSegments(video.duration, FreshIds(UsedSegmentIds(segments), 1)[1])
  /\ lastEvent' = "handleLoadedMetadata"
  /\ splitFrom' = <<>>
  /\ DeferredRender
  /\ download' = <<>>
  /\ UNCHANGED error
  /\ UNCHANGED <<currentTime, textBlocks, lrcRead, alert>>

\* handleTimeUpdate: the element reports its playback position t.
handleTimeUpdate(t) ==
  /\ video.present /\ ~video.pending
  /\ t <= video.duration
  /\ currentTime' = t
  /\ lastEvent' = "handleTimeUpdate"
  /\ splitFrom' = <<>>
  /\ DeferredRender
  /\ download' = <<>>
  /\ UNCHANGED error
  /\ UNCHANGED <<video, duration, textBlocks, segments, lrcRead, alert>>

\* ------------------------------------------------------- segment logic

\* SplitAt with the split point compared by >= instead of >: a split at a
\* segment's start cuts off an empty segment.
SplitAtInclusive(prev, time, newId) ==
  LET index == FindIndex(prev, LAMBDA s : time >= s.startTime /\ time < s.endTime)
  IN  IF index = 0 THEN prev
      ELSE LET target == prev[index]
               segA == [target EXCEPT !.endTime = time]
               segB == [id |-> newId, startTime |-> time,
                        endTime |-> target.endTime, textId |-> NULL]
           IN  SubSeq(prev, 1, index - 1) \o <<segA, segB>>
                 \o SubSeq(prev, index + 1, Len(prev))

\* SplitAt with segB built by spreading target: it keeps target's textId.
SplitAtKeepsText(prev, time, newId) ==
  LET index == FindIndex(prev, LAMBDA s : time > s.startTime /\ time < s.endTime)
  IN  IF index = 0 THEN prev
      ELSE LET target == prev[index]
               segA == [target EXCEPT !.endTime = time]
               segB == [target EXCEPT !.id = newId, !.startTime = time]
           IN  SubSeq(prev, 1, index - 1) \o <<segA, segB>>
                 \o SubSeq(prev, index + 1, Len(prev))

\* SplitAt with the end compared by <= instead of <: a split at a segment's
\* end cuts off an empty segment.
SplitAtEndInclusive(prev, time, newId) ==
  LET index == FindIndex(prev, LAMBDA s : time > s.startTime /\ time <= s.endTime)
  IN  IF index = 0 THEN prev
      ELSE LET target == prev[index]
               segA == [target EXCEPT !.endTime = time]
               segB == [id |-> newId, startTime |-> time,
                        endTime |-> target.endTime, textId |-> NULL]
           IN  SubSeq(prev, 1, index - 1) \o <<segA, segB>>
                 \o SubSeq(prev, index + 1, Len(prev))

\* The updater splitSegment passes to setSegments.
SplitAt(prev, time, newId) ==
  LET index == FindIndex(prev, LAMBDA s : time > s.startTime /\ time < s.endTime)
  IN  IF index = 0 THEN prev
      ELSE LET target == prev[index]
               segA == [target EXCEPT !.endTime = time]
               segB == [id |-> newId, startTime |-> time,
                        endTime |-> target.endTime, textId |-> NULL]
           IN  SubSeq(prev, 1, index - 1) \o <<segA, segB>>
                 \o SubSeq(prev, index + 1, Len(prev))

splitSegment ==
  /\ Len(segments) < MaxSegments
  /\ segments' = SplitAt(segments, currentTime,
                         FreshIds(UsedSegmentIds(segments), 1)[1])
  /\ lastEvent' = "splitSegment"
  /\ splitFrom' = IF segments' # segments THEN segments ELSE <<>>
  /\ download' = <<>>
  /\ UNCHANGED error
  /\ UNCHANGED <<video, duration, currentTime, textBlocks, lrcRead, alert>>
  /\ SyncRender

\* next.textId || current.textId: the operands swapped.
OrElseSwapped(a, b) == IF b # NULL THEN b ELSE a

\* current.textId || next.textId
OrElse(a, b) == IF a # NULL THEN a ELSE b

\* MergeAt with the merged segment built by spreading next: it has the id
\* of the second of the two segments.
MergeAtIntoNext(prev, segmentIndex) ==
  LET current == prev[segmentIndex + 1]
      next == prev[segmentIndex + 2]
      merged == [next EXCEPT !.startTime = current.startTime,
                             !.textId = OrElse(current.textId, next.textId)]
  IN  SubSeq(prev, 1, segmentIndex) \o <<merged>>
        \o SubSeq(prev, segmentIndex + 3, Len(prev))

\* The updater mergeSegments passes to setSegments; segmentIndex counts from 0.
MergeAt(prev, segmentIndex) ==
  LET current == prev[segmentIndex + 1]
      next == prev[segmentIndex + 2]
      merged == [current EXCEPT !.endTime = next.endTime,
                                !.textId = OrElse(current.textId, next.textId)]
  IN  SubSeq(prev, 1, segmentIndex) \o <<merged>>
        \o SubSeq(prev, segmentIndex + 3, Len(prev))

\* mergeSegments tests segmentIndex against the segments of its closure; the
\* updater then reads prev[segmentIndex + 1] of the list in the update queue
\* and, where there is none, throws a TypeError on next.endTime.
mergeSegments(segmentIndex) ==
  /\ IF segmentIndex >= Len(renderedSegments) - 1
       THEN UNCHANGED <<segments, error>>
     ELSE IF segmentIndex + 2 > Len(segments)
       THEN error' = "TypeError" /\ UNCHANGED segments
     ELSE segments' = MergeAt(segments, segmentIndex) /\ UNCHANGED error
  /\ lastEvent' = "mergeSegments"
  /\ splitFrom' = IF lastEvent = "splitSegment" THEN splitFrom ELSE <<>>
  /\ download' = <<>>
  /\ UNCHANGED <<video, duration, currentTime, textBlocks, lrcRead, alert>>
  /\ SyncRender

updateSegmentText(segmentId, textId) ==
  /\ segments' = MapSeq(segments,
                   LAMBDA s : IF s.id = segmentId THEN [s EXCEPT !.textId = textId] ELSE s)
  /\ lastEvent' = "updateSegmentText"
  /\ splitFrom' = <<>>
  /\ download' = <<>>
  /\ UNCHANGED error
  /\ UNCHANGED <<video, duration, currentTime, textBlocks, lrcRead, alert>>
  /\ SyncRender

\* ---------------------------------------------------- text block logic

\* addTextBlock(), called without a text.
addTextBlock ==
  /\ Len(textBlocks) < MaxBlocks
  /\ textBlocks' = Append(textBlocks,
                     [id |-> FreshIds(UsedBlockIds(segments, textBlocks), 1)[1],
                      text |-> DefaultText])
  /\ lastEvent' = "addTextBlock"
  /\ splitFrom' = <<>>
  /\ download' = <<>>
  /\ UNCHANGED error
  /\ UNCHANGED <<video, duration, currentTime, segments, lrcRead, alert>>
  /\ SyncRender

\* prev.filter(b => b.id !== id)
WithoutBlock(blocks, id) == SelectSeq(blocks, LAMBDA b : b.id # id)

\* ClearReferencesTo without the test of s.textId: every reference is cleared.
ClearReferencesToAny(segs, id) ==
  MapSeq(segs, LAMBDA s : [s EXCEPT !.textId = NULL])

\* prev.map(s => s.textId === id ? { ...s, textId: null } : s)
ClearReferencesTo(segs, id) ==
  MapSeq(segs, LAMBDA s : IF s.textId = id THEN [s EXCEPT !.textId = NULL] ELSE s)

deleteTextBlock(id) ==
  /\ textBlocks' = WithoutBlock(textBlocks, id)
  /\ segments' = ClearReferencesTo(segments, id)
  /\ lastEvent' = "deleteTextBlock"
  /\ splitFrom' = <<>>
  /\ download' = <<>>
  /\ UNCHANGED error
  /\ UNCHANGED <<video, duration, currentTime, lrcRead, alert>>
  /\ SyncRender

\* updateTextBlock without the test of b.id: every block gets the text.
updateTextBlockOfAll(id, text) ==
  /\ textBlocks' = MapSeq(textBlocks, LAMBDA b : [b EXCEPT !.text = text])
  /\ lastEvent' = "updateTextBlock"
  /\ splitFrom' = <<>>
  /\ download' = <<>>
  /\ UNCHANGED error
  /\ UNCHANGED <<video, duration, currentTime, segments, lrcRead, alert>>
  /\ SyncRender

updateTextBlock(id, text) ==
  /\ textBlocks' = MapSeq(textBlocks,
                     LAMBDA b : IF b.id = id THEN [b EXCEPT !.text = text] ELSE b)
  /\ lastEvent' = "updateTextBlock"
  /\ splitFrom' = <<>>
  /\ download' = <<>>
  /\ UNCHANGED error
  /\ UNCHANGED <<video, duration, currentTime, segments, lrcRead, alert>>
  /\ SyncRender

\* Reordered as an exchange: the dragged block and the block it is dropped
\* on change places.
ReorderedExchanged(prev, sourceIndex, targetIndex) ==
  [k \in 1..Len(prev) |->
     IF k = sourceIndex + 1 /\ targetIndex < Len(prev) THEN prev[targetIndex + 1]
     ELSE IF k = targetIndex + 1 THEN prev[sourceIndex + 1]
     ELSE prev[k]]

\* The updater of handleTextBlockDrop, for a sourceIndex that is a position
\* of prev: splice(sourceIndex, 1) then splice(targetIndex, 0, removed); both
\* indices count from 0, and splice inserts at the end when targetIndex is
\* past it.
Reordered(prev, sourceIndex, targetIndex) ==
  LET removed == prev[sourceIndex + 1]
      rest == SubSeq(prev, 1, sourceIndex) \o SubSeq(prev, sourceIndex + 2, Len(prev))
      at == IF targetIndex > Len(rest) THEN Len(rest) ELSE targetIndex
  IN  SubSeq(rest, 1, at) \o <<removed>> \o SubSeq(rest, at + 1, Len(rest))

\* handleTextBlockDrop of the block dragged from sourceIndex onto
\* targetIndex, both indices of blocks on screen.  Where the library in the
\* update queue has no block at sourceIndex, splice removes nothing, the
\* updater inserts undefined, and rendering that list throws a TypeError.
handleTextBlockDrop(sourceIndex, targetIndex) ==
  /\ sourceIndex \in 0..(Len(renderedTextBlocks) - 1)
  /\ targetIndex \in 0..(Len(renderedTextBlocks) - 1)
  /\ IF sourceIndex = targetIndex
       THEN UNCHANGED <<textBlocks, error>>
     ELSE IF sourceIndex >= Len(textBlocks)
       THEN error' = "TypeError" /\ UNCHANGED textBlocks
     ELSE textBlocks' = Reordered(textBlocks, sourceIndex, targetIndex)
            /\ UNCHANGED error
  /\ lastEvent' = "handleTextBlockDrop"
  /\ splitFrom' = <<>>
  /\ download' = <<>>
  /\ UNCHANGED <<video, duration, currentTime, segments, lrcRead, alert>>
  /\ SyncRender

\* BulkLines without the map(l => l.trim()): the lines keep their blanks.
BulkLinesUntrimmed(text) ==
  SelectSeq(SplitLines(text), LAMBDA l : Len(Trim(l)) > 0)

\* text.split('\n').map(l => l.trim()).filter(l => l.length > 0)
BulkLines(text) ==
  SelectSeq(MapSeq(SplitLines(text), Trim), LAMBDA l : Len(l) > 0)

\* The blocks handleBulkImport appends for the lines, with the given ids.
BulkBlocks(lines, ids) == [i \in 1..Len(lines) |-> [id |-> ids[i], text |-> lines[i]]]

handleBulkImport(rawText) ==
  /\ Len(textBlocks) + Len(BulkLines(rawText)) <= MaxBlocks
  /\ textBlocks' =
       IF Trim(rawText) = <<>> THEN textBlocks
       ELSE textBlocks \o BulkBlocks(BulkLines(rawText),
              FreshIds(UsedBlockIds(segments, textBlocks), Len(BulkLines(rawText))))
  /\ lastEvent' = "handleBulkImport"
  /\ splitFrom' = <<>>
  /\ download' = <<>>
  /\ UNCHANGED error
  /\ UNCHANGED <<video, duration, currentTime, segments, lrcRead, alert>>
  /\ SyncRender

\* The two sample blocks of the "load sample text" button.
SampleBlocks ==
  <<[id |-> 1, text |-> Chars("Hello, this is a sample line.")],
    [id |-> 2, text |-> Chars("Watching the sunset in silence.")]>>

\* onClick of the "load sample text" button.
loadSampleText ==
  /\ textBlocks' = SampleBlocks
  /\ lastEvent' = "loadSampleText"
  /\ splitFrom' = <<>>
  /\ download' = <<>>
  /\ UNCHANGED error
  /\ UNCHANGED <<video, duration, currentTime, segments, lrcRead, alert>>
  /\ SyncRender

\* ------------------------------------------------------------ LRC import

\* NewTextBlocks with one block per distinct text: an entry whose text an
\* earlier entry has gives no block.
NewTextBlocksByText(entries, ids) ==
  LET texts == SelectSeq(entries, LAMBDA e : Len(e.text) > 0)
      firsts == {i \in 1..Len(texts) : \A j \in 1..(i - 1) : texts[j].text # texts[i].text}
      RECURSIVE pick(_)
      pick(i) == IF i > Len(texts) THEN <<>>
                 ELSE (IF i \in firsts THEN <<texts[i]>> ELSE <<>>) \o pick(i + 1)
  IN  [i \in 1..Len(pick(1)) |-> [id |-> ids[i], text |-> pick(1)[i].text]]

\* newTextBlocks: one block per entry with non-empty text, in entry order.
NewTextBlocks(entries, ids) ==
  LET texts == SelectSeq(entries, LAMBDA e : Len(e.text) > 0)
  IN  [i \in 1..Len(texts) |-> [id |-> ids[i], text |-> texts[i].text]]

NumNewTextBlocks(entries) == Len(SelectSeq(entries, LAMBDA e : Len(e.text) > 0))

\* allTimes: [0, ...timePoints.filter(t => t > 0 && t < duration), duration]
AllTimes(entries, d) ==
  <<0>> \o SelectSeq(MapSeq(entries, LAMBDA e : e.time),
                     LAMBDA t : t > 0 /\ t < d)
        \o <<d>>

Abs(x) == IF x < 0 THEN -x ELSE x

\* ImportTextId with the block looked up by the entry's position among the
\* entries with text instead of by its text.
ImportTextIdByPosition(entries, newTextBlocks, startTime) ==
  LET k == FindIndex(entries, LAMBDA e : Abs(e.time - startTime) < Tolerance)
      b == IF k = 0 \/ entries[k].text = <<>> THEN 0
           ELSE NumNewTextBlocks(SubSeq(entries, 1, k))
  IN  IF b = 0 THEN NULL ELSE newTextBlocks[b].id

\* The textId of the segment starting at startTime: the first entry within
\* the tolerance decides; its text, if not empty, is looked up by equality
\* in the new blocks.
ImportTextId(entries, newTextBlocks, startTime) ==
  LET k == FindIndex(entries, LAMBDA e : Abs(e.time - startTime) < Tolerance)
      b == IF k = 0 \/ entries[k].text = <<>> THEN 0
           ELSE FindIndex(newTextBlocks, LAMBDA x : x.text = entries[k].text)
  IN  IF b = 0 THEN NULL ELSE newTextBlocks[b].id

\* newSegments: one segment per consecutive pair of allTimes.
NewSegments(entries, newTextBlocks, d, ids) ==
  LET allTimes == AllTimes(entries, d)
  IN  [i \in 1..(Len(allTimes) - 1) |->
         [id |-> ids[i], startTime |-> allTimes[i], endTime |-> allTimes[i + 1],
          textId |-> ImportTextId(entries, newTextBlocks, allTimes[i])]]

\* ImportOutcome with the duration check written duration <= maxTime: a file
\* whose last tag is at the video's end is rejected too.
ImportOutcomeRejectsEqual(text, d, segs, blocks) ==
  LET parsed == parseLRCFile(text)
      entries == parsed.entries
      newTextBlocks ==
        NewTextBlocks(entries, FreshIds(UsedBlockIds(segs, blocks), NumNewTextBlocks(entries)))
  IN  IF Len(entries) = 0
        THEN [alert |-> "empty", segments |-> segs, textBlocks |-> blocks]
      ELSE IF d > 0 /\ d <= parsed.maxTime
        THEN [alert |-> "too long", segments |-> segs, textBlocks |-> blocks]
      ELSE [alert |-> "imported",
            segments |-> IF d > 0
                           THEN NewSegments(entries, newTextBlocks, d,
                                  FreshIds(UsedSegmentIds(segs), Len(AllTimes(entries, d)) - 1))
                           ELSE segs,
            textBlocks |-> newTextBlocks]

\* ImportOutcome without the entries.length === 0 check: a file without
\* entries is installed as an empty library and one segment.
ImportOutcomeInstallsEmpty(text, d, segs, blocks) ==
  LET parsed == parseLRCFile(text)
      entries == parsed.entries
      newTextBlocks ==
        NewTextBlocks(entries, FreshIds(UsedBlockIds(segs, blocks), NumNewTextBlocks(entries)))
  IN  IF d > 0 /\ d < parsed.maxTime
        THEN [alert |-> "too long", segments |-> segs, textBlocks |-> blocks]
      ELSE [alert |-> "imported",
            segments |-> IF d > 0
                           THEN NewSegments(entries, newTextBlocks, d,
                                  FreshIds(UsedSegmentIds(segs), Len(AllTimes(entries, d)) - 1))
                           ELSE segs,
            textBlocks |-> newTextBlocks]

\* The outcome of the part of handleLrcImport that runs once the file's text
\* is read, for closure duration d: which alert is shown and the state the
\* setters leave.
ImportOutcome(text, d, segs, blocks) ==
  LET parsed == parseLRCFile(text)
      entries == parsed.entries
      newTextBlocks ==
        NewTextBlocks(entries, FreshIds(UsedBlockIds(segs, blocks), NumNewTextBlocks(entries)))
  IN  IF Len(entries) = 0
        THEN [alert |-> "empty", segments |-> segs, textBlocks |-> blocks]
      ELSE IF d > 0 /\ d < parsed.maxTime
        THEN [alert |-> "too long", segments |-> segs, textBlocks |-> blocks]
      ELSE [alert |-> "imported",
            segments |-> IF d > 0
                           THEN NewSegments(entries, newTextBlocks, d,
                                  FreshIds(UsedSegmentIds(segs), Len(AllTimes(entries, d)) - 1))
                           ELSE segs,
            textBlocks |-> newTextBlocks]

\* handleLrcImport up to `await file.text()`: a file with the given content
\* was chosen in the import dialog; the call's closure holds this render's
\* duration.  The dialog opens from a button that is disabled while
\* duration === 0.
handleLrcImport(text) ==
  /\ duration # 0
  /\ ~lrcRead.active
  /\ lrcRead' = [active |-> TRUE, duration |-> duration, text |-> text]
  /\ lastEvent' = "handleLrcImport"
  /\ splitFrom' = <<>>
  /\ DeferredRender
  /\ download' = <<>>
  /\ UNCHANGED error
  /\ UNCHANGED <<video, duration, currentTime, textBlocks, segments, alert>>

\* handleLrcImport from the resumption after `await file.text()` to its end.
\* setSegments and setTextBlocks are applied in one render.
lrcImportResume ==
  /\ lrcRead.active
  /\ lastEvent' = "lrcImportResume"
  /\ splitFrom' = <<>>
  /\ lrcRead' = NoRead
  /\ LET out == ImportOutcome(lrcRead.text, lrcRead.duration, segments, textBlocks)
     IN  /\ segments' = out.segments
         /\ textBlocks' = out.textBlocks
         /\ alert' = out.alert
  /\ DeferredRender
  /\ download' = <<>>
  /\ UNCHANGED error
  /\ UNCHANGED <<video, duration, currentTime>>

\* handleLrcImport when file.text() rejects: the catch block only alerts.
lrcImportFail ==
  /\ lrcRead.active
  /\ lrcRead' = NoRead
  /\ alert' = "failed"
  /\ lastEvent' = "lrcImportFail"
  /\ splitFrom' = <<>>
  /\ DeferredRender
  /\ download' = <<>>
  /\ UNCHANGED error
  /\ UNCHANGED <<video, duration, currentTime, textBlocks, segments>>

\* ------------------------------------------------------------ LRC export

\* The export button is disabled unless some segment has a textId.
ExportEnabled == \E i \in 1..Len(segments) : segments[i].textId # NULL

\* onClick of the export button: exportLRC downloads the lines of the
\* segments on screen.
downloadLRC ==
  /\ ExportEnabled
  /\ renderedSegments = segments
  /\ renderedTextBlocks = textBlocks
  /\ download' = exportLRC(segments, textBlocks)
  /\ lastEvent' = "downloadLRC"
  /\ splitFrom' = <<>>
  /\ UNCHANGED <<video, duration, currentTime, textBlocks, segments, lrcRead,
                 alert, renderedSegments, renderedTextBlocks, error>>

\* onClick of the export button of the App without LRC import.
downloadLRC0 ==
  /\ ExportEnabled
  /\ renderedSegments = segments
  /\ renderedTextBlocks = textBlocks
  /\ download' = exportLRC0(segments, textBlocks)
  /\ lastEvent' = "downloadLRC0"
  /\ splitFrom' = <<>>
  /\ UNCHANGED <<video, duration, currentTime, textBlocks, segments, lrcRead,
                 alert, renderedSegments, renderedTextBlocks, error>>

\* ------------------------------------------------------------------- Next

\* The event is one of a bounded session of the mounted application.
Counted == error = "none" /\ events < MaxEvents /\ events' = events + 1

\* The event is one of a session of any length of the mounted application.
Uncounted == error = "none" /\ UNCHANGED events

\* The whole application: every handler that changes the state, in sessions
\* of at most MaxEvents events.
Next ==
  \/ (\E d \in Durations : handleVideoUpload(d)) /\ Counted
  \/ handleLoadedMetadata /\ Counted
  \/ (\E t \in TimePoints : handleTimeUpdate(t)) /\ Counted
  \/ splitSegment /\ Counted
  \/ (\E i \in 0..MaxSegments : mergeSegments(i)) /\ Counted
  \/ (\E sid \in SegmentIds(segments), tid \in BlockIds(textBlocks) \cup {NULL} :
        updateSegmentText(sid, tid)) /\ Counted
  \/ addTextBlock /\ Counted
  \/ (\E id \in BlockIds(renderedTextBlocks) : deleteTextBlock(id)) /\ Counted
  \/ (\E id \in BlockIds(renderedTextBlocks), text \in EditTexts :
        updateTextBlock(id, text)) /\ Counted
  \/ (\E i, j \in 0..(MaxBlocks + 1) : handleTextBlockDrop(i, j)) /\ Counted
  \/ (\E raw \in BulkTexts : handleBulkImport(raw)) /\ Counted
  \/ loadSampleText /\ Counted
  \/ (\E text \in LrcFiles : handleLrcImport(text)) /\ Counted
  \/ lrcImportResume /\ Counted
  \/ lrcImportFail /\ Counted
  \/ commitRender /\ Uncounted

Spec == Init /\ [][Next]_vars

\* The timeline alone, in sessions of any length: video load, playback,
\* split, merge, and the sample texts assigned to segments.
NextTimeline ==
  \/ (\E d \in Durations : handleVideoUpload(d)) /\ Uncounted
  \/ handleLoadedMetadata /\ Uncounted
  \/ (\E t \in TimePoints : handleTimeUpdate(t)) /\ Uncounted
  \/ splitSegment /\ Uncounted
  \/ (\E i \in 0..MaxSegments : mergeSegments(i)) /\ Uncounted
  \/ loadSampleText /\ Uncounted
  \/ (\E sid \in SegmentIds(segments), tid \in BlockIds(textBlocks) \cup {NULL} :
        updateSegmentText(sid, tid)) /\ Uncounted
  \/ commitRender /\ Uncounted

SpecTimeline == Init /\ [][NextTimeline]_vars

\* Durations (ms) of the video files of the codec sessions: ten seconds, and
\* more than a hundred minutes.
CodecDurations == {10000, 6100000}

\* Playback positions (ms) of the codec sessions: on the hundredths grid
\* (5.00 s, 10.00 s, 1:03.40, 9:59.99, 100:07.25) and off it (0.003 s,
\* 59.995 s, 59.996 s).
CodecTimes == {3, 5000, 10000, 59995, 59996, 63400, 599990, 6007250}

\* The contents of the .lrc files of the codec sessions.
CodecFiles ==
  { Chars("[01:03.40]Hello"),
    Chars("[00:05.00]Hi[00:08.50]"),
    Chars("[00:05:00]Hi"),
    Chars("[00:05.00]\n[00:05.00]a") }

\* The event is one of a bounded codec session of the mounted application.
CountedCodec == error = "none" /\ events < MaxCodecEvents /\ events' = events + 1

\* The LRC codec: video load, playback, split, merge, LRC import and export,
\* in sessions of at most MaxCodecEvents events.
NextCodec ==
  \/ (\E d \in CodecDurations : handleVideoUpload(d)) /\ CountedCodec
  \/ handleLoadedMetadata /\ CountedCodec
  \/ (\E t \in CodecTimes : handleTimeUpdate(t)) /\ CountedCodec
  \/ splitSegment /\ CountedCodec
  \/ (\E i \in 0..MaxSegments : mergeSegments(i)) /\ CountedCodec
  \/ (\E text \in CodecFiles : handleLrcImport(text)) /\ CountedCodec
  \/ lrcImportResume /\ CountedCodec
  \/ commitRender /\ Uncounted
  \/ downloadLRC /\ CountedCodec
  \/ downloadLRC0 /\ CountedCodec

SpecCodec == Init /\ [][NextCodec]_vars

\* Duration (ms) of the video file of the text library sessions.
LibraryDurations == {10000}

\* What the user pastes into the bulk-import form in the text library
\* sessions: two lines around an empty one, one line, blank lines only.
LibraryBulkTexts == {Chars(" a \n\nb"), Chars("\tc "), Chars(" \n ")}

\* The contents of the .lrc files of the text library sessions: three
\* entries with text, and one.
LibraryFiles ==
  { Chars("[00:02.00]a\n[00:04.00]b\n[00:06.00]c"),
    Chars("[00:02.00]a") }

\* The event is one of a bounded text library session of the mounted
\* application.
CountedLibrary == error = "none" /\ events < MaxLibraryEvents /\ events' = events + 1

\* The text library: its handlers on the blocks on screen, with a video and
\* LRC imports that replace the library, in sessions of at most
\* MaxLibraryEvents events.
NextLibrary ==
  \/ (\E d \in LibraryDurations : handleVideoUpload(d)) /\ CountedLibrary
  \/ handleLoadedMetadata /\ CountedLibrary
  \/ (\E sid \in SegmentIds(segments), tid \in BlockIds(textBlocks) \cup {NULL} :
        updateSegmentText(sid, tid)) /\ CountedLibrary
  \/ addTextBlock /\ CountedLibrary
  \/ (\E id \in BlockIds(renderedTextBlocks) : deleteTextBlock(id)) /\ CountedLibrary
  \/ (\E id \in BlockIds(renderedTextBlocks), text \in EditTexts :
        updateTextBlock(id, text)) /\ CountedLibrary
  \/ (\E i, j \in 0..(MaxBlocks + 1) : handleTextBlockDrop(i, j)) /\ CountedLibrary
  \/ (\E raw \in LibraryBulkTexts : handleBulkImport(raw)) /\ CountedLibrary
  \/ loadSampleText /\ CountedLibrary
  \/ (\E text \in LibraryFiles : handleLrcImport(text)) /\ CountedLibrary
  \/ lrcImportResume /\ CountedLibrary
  \/ commitRender /\ Uncounted

SpecLibrary == Init /\ [][NextLibrary]_vars

\* Duration (ms) of the video file of the decode sessions.
DecodeDurations == {10000}

\* The contents of the .lrc files of the decode sessions: several tags on a
\* line, the same tag twice on a line, tags without text at time zero and
\* later, a line repeated, times out of order with two entries at one time,
\* and a line without a tag.
DecodeFiles ==
  { Chars("[00:01.00][00:03.00]x"),
    Chars("[00:02.00]y[00:02.00]"),
    Chars("[00:00.00]\n[00:08.50]\n[00:00.00]z"),
    Chars("[00:05.00]a\n[00:05.00]a"),
    Chars("[00:05.00]b\n[00:02.00]c\n[00:05.00]a\n\n[00:02.00]c"),
    Chars("[00:00.00] [00:04.00]\nno tag\n[0:07]w") }

\* The event is one of a bounded decode session of the mounted application.
CountedDecode == error = "none" /\ events < MaxDecodeEvents /\ events' = events + 1

\* Decoding: a video, the sample texts as a library to be replaced, and LRC
\* imports, in sessions of at most MaxDecodeEvents events.
NextDecode ==
  \/ (\E d \in DecodeDurations : handleVideoUpload(d)) /\ CountedDecode
  \/ handleLoadedMetadata /\ CountedDecode
  \/ loadSampleText /\ CountedDecode
  \/ (\E text \in DecodeFiles : handleLrcImport(text)) /\ CountedDecode
  \/ lrcImportResume /\ CountedDecode
  \/ lrcImportFail /\ CountedDecode
  \/ commitRender /\ Uncounted

SpecDecode == Init /\ [][NextDecode]_vars

\* ----------------------------------------------------------- properties

\* The video's metadata is loaded: Initialize(duration) has run and no newer
\* file is waiting for its metadata.
Loaded == video.present /\ ~video.pending

\* segs is an exact partition of [0, d): not empty, from 0 to d, every
\* segment non-empty, each ending where the next starts, ordered by startTime.
IsPartition(segs, d) ==
  /\ Len(segs) > 0
  /\ segs[1].startTime = 0
  /\ segs[Len(segs)].endTime = d
  /\ \A i \in 1..Len(segs) : segs[i].startTime < segs[i].endTime
  /\ \A i \in 1..(Len(segs) - 1) : segs[i].endTime = segs[i + 1].startTime
  /\ \A i \in 1..Len(segs) : \A j \in i..Len(segs) :
       segs[i].startTime <= segs[j].startTime

\* C1: from Initialize(d), d > 0, on, after any sequence of Split, Merge and
\* Initialize the segment list is a non-empty, ordered, gapless partition of
\* [0, duration) whose segments all have startTime < endTime.
C1_PartitionInvariant ==
  Loaded => duration > 0 /\ IsPartition(segments, duration)

\* C1 witness: two splits and a merge happened (the second segment carries the
\* third id handed out) and the list is a partition again.
C1_Witness ==
  /\ Loaded
  /\ lastEvent = "mergeSegments"
  /\ Len(segments) = 2
  /\ segments[2].id = 5
  /\ IsPartition(segments, duration)

\* What Merge(i) promises of the step from segs to segs2 (i counts from 0).
MergePost(segs, segs2, i) ==
  /\ Len(segs2) = Len(segs) - 1
  /\ segs2[i + 1].startTime = segs[i + 1].startTime
  /\ segs2[i + 1].endTime = segs[i + 2].endTime
  /\ segs2[i + 1].textId =
       (IF segs[i + 1].textId # NULL THEN segs[i + 1].textId ELSE segs[i + 2].textId)
  /\ \A k \in 1..i : segs2[k] = segs[k]
  /\ \A k \in (i + 3)..Len(segs) : segs2[k - 1] = segs[k]

\* C9: Merge(index) with a successor present replaces the two segments by one
\* spanning both, with the left textId if present and else the right one;
\* every other segment is unchanged and the count drops by one.
C9_MergeResult ==
  [][\A i \in 0..MaxSegments :
       (mergeSegments(i) /\ i < Len(segments) - 1)
         => MergePost(segments, segments', i)]_vars

\* C9 witness: a merge of two of three segments happened and the merged list
\* holds a segment with a text next to one without.
C9_Witness ==
  /\ lastEvent = "mergeSegments"
  /\ Len(segments) = 2
  /\ segments[2].id = 5
  /\ \E k \in 1..2 : segments[k].textId # NULL
  /\ \E k \in 1..2 : segments[k].textId = NULL

\* What Split(time) promises of the step from segs to segs2 when time lies
\* strictly inside segment i (i counts from 1).
SplitPost(segs, segs2, time, i) ==
  /\ Len(segs2) = Len(segs) + 1
  /\ segs2[i] = [segs[i] EXCEPT !.endTime = time]
  /\ segs2[i + 1].startTime = time
  /\ segs2[i + 1].endTime = segs[i].endTime
  /\ segs2[i + 1].textId = NULL
  /\ \A k \in 1..(i - 1) : segs2[k] = segs[k]
  /\ \A k \in (i + 1)..Len(segs) : segs2[k + 1] = segs[k]

\* C10: Split(atTime) strictly inside segment i replaces it by [startTime,
\* atTime) with the original textId and [atTime, endTime) with none; every
\* other segment is unchanged and the count grows by one.
C10_SplitResult ==
  [][\A i \in 1..Len(segments) :
       (/\ splitSegment
        /\ segments[i].startTime < currentTime
        /\ currentTime < segments[i].endTime)
         => SplitPost(segments, segments', currentTime, i)]_vars

\* C10 witness: a split of a segment that has a text happened, between other
\* segments: the left part keeps the text, the right part has none.
C10_Witness ==
  /\ lastEvent = "splitSegment"
  /\ Len(segments) = 3
  /\ \E i \in 1..2 : /\ segments[i].textId # NULL
                     /\ segments[i + 1].textId = NULL
                     /\ segments[i + 1].id = 5

\* C2: in every reachable state each segment's textId is null or the id of a
\* block currently in the text library.
C2_TextRefsValid ==
  \A i \in 1..Len(segments) :
    segments[i].textId = NULL \/ segments[i].textId \in BlockIds(textBlocks)

\* The boundary values an import with duration d is to cut at: 0, the entry
\* times strictly between 0 and d, and d.
BoundarySet(entries, d) ==
  {0, d} \cup {entries[i].time : i \in {k \in 1..Len(entries) :
                                         entries[k].time > 0 /\ entries[k].time < d}}

\* C3: an LRC import that succeeds with a known duration d > 0 installs an
\* exact partition of [0, d), with strictly increasing boundaries and one
\* segment per consecutive pair of distinct boundary values, whatever the
\* decoded entries are.
C3_ImportPartition ==
  [][(lrcImportResume /\ alert' = "imported" /\ lrcRead.duration > 0)
       => /\ IsPartition(segments', lrcRead.duration)
          /\ Len(segments') + 1 =
               Cardinality(BoundarySet(parseLRCFile(lrcRead.text).entries,
                                       lrcRead.duration))]_vars

\* C4: right after a video file is selected and right after its metadata is
\* loaded, the segment list is an exact partition of [0, duration) for the
\* duration in state, whenever that duration is > 0.
C4_PartitionAfterDurationChange ==
  (lastEvent \in {"handleVideoUpload", "handleLoadedMetadata"} /\ duration > 0)
    => IsPartition(segments, duration)

\* The texts of the library a file's content decodes to: the non-empty entry
\* texts, in entry order.
DecodedTexts(text) ==
  LET kept == SelectSeq(parseLRCFile(text).entries, LAMBDA e : e.text # <<>>)
  IN  [i \in 1..Len(kept) |-> kept[i].text]

\* segs runs from 0 to d without a gap.
Spans(segs, d) ==
  /\ Len(segs) > 0
  /\ segs[1].startTime = 0
  /\ segs[Len(segs)].endTime = d
  /\ \A i \in 1..(Len(segs) - 1) : segs[i].endTime = segs[i + 1].startTime

\* C5: whatever events are handled between the choice of the file and the end
\* of its read, once the import completes the library is the decoded library
\* and the segment list runs over [0, duration) for the duration in state at
\* completion; both collections are replaced in the same step.
C5_ImportAtomic ==
  [][(lrcImportResume /\ alert' = "imported")
       => /\ [i \in 1..Len(textBlocks') |-> textBlocks'[i].text]
               = DecodedTexts(lrcRead.text)
          /\ Spans(segments', duration')]_vars

\* C6: round trip.  For a reachable partition of [0, duration) whose text
\* references all name blocks of the library, at least one of them set (the
\* export button is enabled), importing the text that exportLRC produces, with
\* the same duration, succeeds and yields as many segments, with boundaries
\* within the tolerance and the same text each.
C6_RoundTrip ==
  (/\ duration > 0
   /\ IsPartition(segments, duration)
   /\ C2_TextRefsValid
   /\ \E i \in 1..Len(segments) : segments[i].textId # NULL)
    => LET out == ImportOutcome(exportLRC(segments, textBlocks), duration,
                                segments, textBlocks)
       IN  /\ out.alert = "imported"
           /\ Len(out.segments) = Len(segments)
           /\ \A i \in 1..Len(segments) :
                /\ Abs(out.segments[i].startTime - segments[i].startTime) <= Tolerance
                /\ Abs(out.segments[i].endTime - segments[i].endTime) <= Tolerance
                /\ BlockText(out.segments[i], out.textBlocks)
                     = BlockText(segments[i], textBlocks)

\* The largest time among decoded entries (there is at least one).
LargestTime(entries) ==
  CHOOSE t \in {entries[i].time : i \in 1..Len(entries)} :
    \A i \in 1..Len(entries) : entries[i].time <= t

C8_EmptyImport ==
  [][(lrcImportResume /\ parseLRCFile(lrcRead.text).entries = <<>>)
       => (alert' = "empty" /\ UNCHANGED <<segments, textBlocks>>)]_vars

\* C8 witness: with a text assigned to a segment, an import found no entry.
C8_Witness ==
  /\ lastEvent = "lrcImportResume"
  /\ alert = "empty"
  /\ \E i \in 1..Len(segments) : segments[i].textId # NULL

\* The boundaries of a segment list: every startTime and every endTime.
Boundaries(segs) ==
  {segs[i].startTime : i \in 1..Len(segs)} \cup {segs[i].endTime : i \in 1..Len(segs)}

C12_MergePastEnd ==
  [][\A i \in 0..MaxSegments :
       (mergeSegments(i) /\ i >= Len(segments) - 1)
         => (segments' = segments /\ error' = "none")]_vars

\* What deleting the library entry id promises of the step from (blocks, segs)
\* to (blocks2, segs2): that entry alone leaves the library, the others keep
\* their order; the segments referencing it lose their textId and nothing
\* else of any segment changes.
DeletePost(blocks, segs, blocks2, segs2, id) ==
  LET pos == CHOOSE k \in 1..Len(blocks) : blocks[k].id = id
  IN  /\ Len(blocks2) = Len(blocks) - 1
      /\ \A k \in 1..Len(blocks2) :
           blocks2[k] = blocks[IF k < pos THEN k ELSE k + 1]
      /\ Len(segs2) = Len(segs)
      /\ \A k \in 1..Len(segs) :
           /\ segs2[k].id = segs[k].id
           /\ segs2[k].startTime = segs[k].startTime
           /\ segs2[k].endTime = segs[k].endTime
           /\ segs2[k].textId = (IF segs[k].textId = id THEN NULL ELSE segs[k].textId)

\* C13: deleting a text entry referenced by N segments removes exactly that
\* entry and clears the textId of exactly those N segments; the number, ids,
\* order and boundaries of the segments and every other textId are unchanged.
C13_DeleteCascade ==
  [][\A id \in BlockIds(textBlocks) :
       deleteTextBlock(id) => DeletePost(textBlocks, segments, textBlocks', segments', id)]_vars

\* C13 witness: of the two imported entries a and b, a, which the second and
\* the third segment referenced, was deleted.
C13_Witness ==
  /\ lastEvent = "deleteTextBlock"
  /\ Len(segments) = 3
  /\ \A k \in 1..3 : segments[k].textId = NULL
  /\ Len(textBlocks) = 1
  /\ textBlocks[1].text = Chars("b")

\* line starts with the characters of prefix.
StartsWith(line, prefix) ==
  Len(line) >= Len(prefix) /\ SubSeq(line, 1, Len(prefix)) = prefix

\* C14: an export writes exactly one line per segment, in segment order, each
\* line starting with its segment's timestamp tag, a segment without text
\* included; the exported document has as many lines as there are segments.
C14_OneLinePerSegment ==
  lastEvent \in {"downloadLRC", "downloadLRC0"}
    => LET lines == SplitLines(download)
       IN  /\ Len(lines) = Len(segments)
           /\ \A i \in 1..Len(segments) :
                StartsWith(lines[i], formatLrcTime(segments[i].startTime))

\* The same of the exportLRC that imports can be read back from.
C14_OneLinePerSegmentWithImport ==
  lastEvent = "downloadLRC"
    => LET lines == SplitLines(download)
       IN  /\ Len(lines) = Len(segments)
           /\ \A i \in 1..Len(segments) :
                StartsWith(lines[i], formatLrcTime(segments[i].startTime))

\* The decimal digit d as a character.
DigitChar(d) == SubSeq("0123456789", d + 1, d + 1)

\* n < 100 written with two digits.
TwoDigits(n) == <<DigitChar(n \div 10), DigitChar(n % 10)>>

\* n < 1000 written with at least two digits.
AtLeastTwoDigits(n) ==
  IF n < 100 THEN TwoDigits(n) ELSE <<DigitChar(n \div 100)>> \o TwoDigits(n % 100)

\* [MM:SS.cc] of a time of whole hundredths of a second, given in ms.
TagOf(t) ==
  <<"[">> \o AtLeastTwoDigits(t \div 60000) \o <<":">>
    \o TwoDigits((t % 60000) \div 1000) \o <<".">> \o TwoDigits((t % 1000) \div 10)
    \o <<"]">>

\* C15: the line exported for a segment whose start time is a whole number of
\* hundredths is [MM:SS.cc] followed by the segment's text, MM = floor(t / 60)
\* with at least two digits, SS the whole seconds of t mod 60 and cc its
\* hundredths; a segment starting at 63.4 s with the text Hello gives
\* [01:03.40]Hello.
C15_ExportTag ==
  lastEvent = "downloadLRC"
    => LET lines == SplitLines(download)
       IN  \A i \in 1..Len(segments) :
             /\ segments[i].startTime % 10 = 0
                  => lines[i] = TagOf(segments[i].startTime)
                                  \o BlockText(segments[i], textBlocks)
             /\ (/\ segments[i].startTime = 63400
                 /\ BlockText(segments[i], textBlocks) = Chars("Hello"))
                  => lines[i] = Chars("[01:03.40]Hello")

\* C15 witness: an export of a segment that starts at 63.4 s with the text
\* Hello, and of one that starts after more than a hundred minutes.
C15_Witness ==
  /\ lastEvent = "downloadLRC"
  /\ \E i \in 1..Len(segments) :
       /\ segments[i].startTime = 63400
       /\ BlockText(segments[i], textBlocks) = Chars("Hello")
  /\ \E i \in 1..Len(segments) : segments[i].startTime = 6007250

\* The file of the decode example: one line with two tags.
TwoTagLine == Chars("[00:05.00]Hi[00:08.50]")

\* The time spans of a segment list.
Spans3(segs, a, b, c, d) ==
  /\ Len(segs) = 3
  /\ segs[1].startTime = a /\ segs[1].endTime = b
  /\ segs[2].startTime = b /\ segs[2].endTime = c
  /\ segs[3].startTime = c /\ segs[3].endTime = d

\* C16, as claimed: [00:05.00]Hi[00:08.50] decodes to (5.00, Hi) and
\* (8.50, empty text); imported with duration 10.0 it gives the segments
\* [0,5), [5,8.5), [8.5,10), of which only the one starting at 5.00
\* references the text Hi.
C16_DecodeExampleAsClaimed ==
  [][(lrcImportResume /\ lrcRead.text = TwoTagLine /\ lrcRead.duration = 10000)
       => /\ parseLRCFile(TwoTagLine).entries
               = <<[time |-> 5000, text |-> Chars("Hi")], [time |-> 8500, text |-> <<>>]>>
          /\ Spans3(segments', 0, 5000, 8500, 10000)
          /\ segments'[1].textId = NULL
          /\ BlockText(segments'[2], textBlocks') = Chars("Hi")
          /\ segments'[3].textId = NULL]_vars

\* C16, amended: [00:05.00]Hi[00:08.50] decodes to (5.00, Hi) and (8.50, Hi),
\* both tags sharing the line's stripped text; imported with duration 10.0 it
\* gives a library of two entries Hi and the segments [0,5), [5,8.5),
\* [8.5,10), of which the first has no text and the other two both reference
\* the first library entry.
C16_DecodeExample ==
  [][(lrcImportResume /\ lrcRead.text = TwoTagLine /\ lrcRead.duration = 10000)
       => /\ parseLRCFile(TwoTagLine).entries
               = <<[time |-> 5000, text |-> Chars("Hi")],
                   [time |-> 8500, text |-> Chars("Hi")]>>
          /\ alert' = "imported"
          /\ Len(textBlocks') = 2
          /\ textBlocks'[1].text = Chars("Hi") /\ textBlocks'[2].text = Chars("Hi")
          /\ textBlocks'[1].id # textBlocks'[2].id
          /\ Spans3(segments', 0, 5000, 8500, 10000)
          /\ segments'[1].textId = NULL
          /\ segments'[2].textId = textBlocks'[1].id
          /\ segments'[3].textId = textBlocks'[1].id]_vars

\* C16 witness: the two-tag line was imported into a 10 s video.
C16_Witness ==
  /\ lastEvent = "lrcImportResume"
  /\ alert = "imported"
  /\ duration = 10000
  /\ Spans3(segments, 0, 5000, 8500, 10000)
  /\ Len(textBlocks) = 2

\* The texts of the decoded entries with text whose time is within the
\* tolerance of t.
TextsNear(entries, t) ==
  {entries[k].text : k \in {j \in 1..Len(entries) :
                              entries[j].text # <<>> /\ Abs(entries[j].time - t) < Tolerance}}

\* C17: after a successful import with a known duration, a segment whose
\* startTime is within 0.01 s of a decoded entry with text references a
\* library entry carrying the text of such an entry, whatever other entries
\* share or neighbour that time; a segment is without text only when no
\* decoded entry with text is that near.
C17_ImportAssignsText ==
  [][(lrcImportResume /\ alert' = "imported" /\ lrcRead.duration > 0)
       => \A i \in 1..Len(segments') :
            LET near == TextsNear(parseLRCFile(lrcRead.text).entries,
                                  segments'[i].startTime)
            IN  IF near = {} THEN segments'[i].textId = NULL
                ELSE /\ segments'[i].textId \in BlockIds(textBlocks')
                     /\ BlockText(segments'[i], textBlocks') \in near]_vars

\* The file of one line whose tag separates the hundredths by a colon.
ColonTagLine == Chars("[00:05:00]Hi")

\* C18: a line [mm:ss:xx]text produces an entry just as [mm:ss.xx]text does:
\* [00:05:00]Hi decodes like [00:05.00]Hi, to the one entry (5.00, Hi), and
\* its import succeeds with a segment starting at 5.00 that carries Hi.
C18_ColonSeparator ==
  [][(lrcImportResume /\ lrcRead.text = ColonTagLine)
       => /\ parseLRCFile(ColonTagLine).entries
               = parseLRCFile(Chars("[00:05.00]Hi")).entries
          /\ parseLRCFile(ColonTagLine).entries
               = <<[time |-> 5000, text |-> Chars("Hi")]>>
          /\ alert' = "imported"
          /\ \E i \in 1..Len(segments') :
               /\ segments'[i].startTime = 5000
               /\ BlockText(segments'[i], textBlocks') = Chars("Hi")]_vars

\* C19: when the metadata of a video of duration d is loaded, the segment
\* list becomes the one segment [0, d) without text, whatever it was before,
\* and the text library is left as it is.
C19_MetadataResets ==
  [][handleLoadedMetadata
       => /\ duration' = video.duration
          /\ Len(segments') = 1
          /\ segments'[1].startTime = 0
          /\ segments'[1].endTime = video.duration
          /\ segments'[1].textId = NULL
          /\ textBlocks' = textBlocks]_vars

\* C19 witness: metadata was loaded while three imported segments were on
\* screen and the library was not empty.
C19_Witness ==
  /\ lastEvent = "handleLoadedMetadata"
  /\ Len(renderedSegments) = 3
  /\ Len(segments) = 1
  /\ segments[1].endTime = duration
  /\ textBlocks # <<>>

\* The segments of segs that are active at playback time t (isActive).
ActiveAt(segs, t) ==
  {i \in 1..Len(segs) : t >= segs[i].startTime /\ t < segs[i].endTime}

\* The playback times examined: 0, the duration, every segment boundary, and
\* the millisecond before and after each of them.
ProbeTimes ==
  LET marks == Boundaries(segments) \cup {0, duration} \cup TimePoints
  IN  {t \in marks \cup {m - 1 : m \in marks} \cup {m + 1 : m \in marks} : t >= 0}

\* C20: with a loaded video, exactly one segment is active at every playback
\* time t with 0 <= t < duration, and none at t = duration.
C20_OneActiveSegment ==
  Loaded =>
    /\ \A t \in ProbeTimes : t < duration => Cardinality(ActiveAt(segments, t)) = 1
    /\ ActiveAt(segments, duration) = {}

\* The lines of rawText that are not blank, each without the blanks at its
\* ends, in line order.
TrimmedLines(rawText) ==
  LET lines == SplitLines(rawText)
      kept == {i \in 1..Len(lines) : \E k \in 1..Len(lines[i]) : ~IsSpace(lines[i][k])}
      RECURSIVE from(_)
      from(i) == IF i > Len(lines) THEN <<>>
                 ELSE (IF i \in kept THEN <<Trim(lines[i])>> ELSE <<>>) \o from(i + 1)
  IN  from(1)

\* C21: a bulk add appends one new entry per non-blank line of rawText, with
\* the trimmed line as text and in line order; the entries that were there
\* keep their ids, texts and positions, the segments are unchanged, and a
\* rawText of blank lines only changes nothing.
C21_BulkAdd ==
  [][\A rawText \in LibraryBulkTexts :
       handleBulkImport(rawText)
         => LET lines == TrimmedLines(rawText)
                n == Len(textBlocks)
            IN  /\ Len(textBlocks') = n + Len(lines)
                /\ SubSeq(textBlocks', 1, n) = textBlocks
                /\ \A k \in 1..Len(lines) : textBlocks'[n + k].text = lines[k]
                /\ \A k \in 1..Len(lines) :
                     /\ textBlocks'[n + k].id \notin BlockIds(textBlocks)
                     /\ \A j \in 1..(k - 1) : textBlocks'[n + j].id # textBlocks'[n + k].id
                /\ rawText = Chars(" a \n\nb")
                     => /\ Len(lines) = 2
                        /\ textBlocks'[n + 1].text = Chars("a")
                        /\ textBlocks'[n + 2].text = Chars("b")
                /\ segments' = segments
                /\ lines = <<>> => textBlocks' = textBlocks]_vars

\* C21 witness: a bulk add of one line put its trimmed text behind the entry
\* that was in the library.
C21_Witness ==
  /\ lastEvent = "handleBulkImport"
  /\ Len(textBlocks) = 2
  /\ textBlocks[1].text = DefaultText
  /\ textBlocks[2].text = Chars("c")
  /\ textBlocks[1].id # textBlocks[2].id

\* seq without its k-th element.
WithoutAt(seq, k) == SubSeq(seq, 1, k - 1) \o SubSeq(seq, k + 1, Len(seq))

\* new is old with the entry at fromIndex moved to toIndex (both counted
\* from 0): the same length, the moved entry at toIndex, and the other
\* entries, ids and texts, in the order they had.
MovedTo(old, new, fromIndex, toIndex) ==
  /\ Len(new) = Len(old)
  /\ new[toIndex + 1] = old[fromIndex + 1]
  /\ WithoutAt(new, toIndex + 1) = WithoutAt(old, fromIndex + 1)
  /\ BlockIds(new) = BlockIds(old)

\* C22: a reorder from fromIndex to toIndex, two positions of the library,
\* gives a permutation of the library with the moved entry at toIndex and
\* the other entries in their order, and changes no segment.
C22_Reorder ==
  [][\A fromIndex, toIndex \in 0..(MaxBlocks + 1) :
       (/\ handleTextBlockDrop(fromIndex, toIndex)
        /\ fromIndex < Len(textBlocks)
        /\ toIndex < Len(textBlocks))
         => /\ MovedTo(textBlocks, textBlocks', fromIndex, toIndex)
            /\ segments' = segments
            /\ error' = "none"]_vars

\* C22 witness: of the imported entries a, b, c, the last was moved to the
\* front, and the second segment still references a.
C22_Witness ==
  /\ lastEvent = "handleTextBlockDrop"
  /\ Len(textBlocks) = 3
  /\ textBlocks[1].text = Chars("c")
  /\ textBlocks[2].text = Chars("a")
  /\ textBlocks[3].text = Chars("b")
  /\ Len(segments) = 4
  /\ segments[2].textId = textBlocks[2].id

\* The ids an Update or a Delete can be called with: those of the blocks on
\* screen and those of the library.
CallableBlockIds == BlockIds(renderedTextBlocks) \cup BlockIds(textBlocks)

\* C23: Update(id, text) on an id of the library replaces the text of that
\* entry only, keeps its id and position and changes no other entry and no
\* segment; Update and Delete on an id that is not in the library change
\* neither the library nor the segments.
C23_UpdateAndUnknownIds ==
  [][\A id \in CallableBlockIds :
       /\ \A text \in EditTexts :
            updateTextBlock(id, text)
              => /\ Len(textBlocks') = Len(textBlocks)
                 /\ \A k \in 1..Len(textBlocks) :
                      /\ textBlocks'[k].id = textBlocks[k].id
                      /\ textBlocks'[k].text =
                           IF textBlocks[k].id = id THEN text ELSE textBlocks[k].text
                 /\ id \notin BlockIds(textBlocks) => textBlocks' = textBlocks
                 /\ segments' = segments
                 /\ error' = "none"
       /\ (deleteTextBlock(id) /\ id \notin BlockIds(textBlocks))
            => /\ textBlocks' = textBlocks
               /\ segments' = segments
               /\ error' = "none"]_vars

\* C23 witness: the delete button of a block that an import had removed from
\* the library was clicked, and the three imported entries and the segments'
\* references to them are all there.
C23_Witness ==
  /\ lastEvent = "deleteTextBlock"
  /\ alert = "imported"
  /\ Len(textBlocks) = 3
  /\ Len(segments) = 4
  /\ \A k \in 1..3 : segments[k + 1].textId = textBlocks[k].id
  /\ error = "none"

\* The times (ms) of the timestamp tags found on a line, in the line's order.
TagTimes(line) ==
  [k \in 1..Len(MatchAllFrom(line, 1)) |->
     MatchAllFrom(line, 1)[k].minutes * 60 * MsPerSecond + MatchAllFrom(line, 1)[k].ms]

\* A line with all of its timestamp tags removed, trimmed.
StrippedText(line) == Trim(StripTagsFrom(line, 1))

\* The elements of a sequence.
Range(seq) == {seq[i] : i \in 1..Len(seq)}

\* The file with two tags on one line.
TwoTagsOneText == Chars("[00:01.00][00:03.00]x")

\* C24: in decode, every timestamp tag of a line gives an entry of its own
\* time (if the keep rule lets it through), every entry comes from a tag of
\* a line, and the entries of one line all carry the line with its tags
\* removed and trimmed as text.
C24_TagsShareLineText ==
  [][lrcImportResume
       => LET text == lrcRead.text
              entries == parseLRCFile(text).entries
              lines == SplitLines(text)
          IN  /\ \A i \in 1..Len(lines) : \A k \in 1..Len(TagTimes(lines[i])) :
                   (StrippedText(lines[i]) # <<>> \/ TagTimes(lines[i])[k] > 0)
                     => [time |-> TagTimes(lines[i])[k], text |-> StrippedText(lines[i])]
                          \in Range(entries)
              /\ \A e \in Range(entries) :
                   \E i \in 1..Len(lines) : \E k \in 1..Len(TagTimes(lines[i])) :
                     e = [time |-> TagTimes(lines[i])[k], text |-> StrippedText(lines[i])]
              /\ text = TwoTagsOneText
                   => /\ entries = <<[time |-> 1000, text |-> Chars("x")],
                                     [time |-> 3000, text |-> Chars("x")]>>
                      /\ alert' = "imported"
                      /\ Len(textBlocks') = 2
                      /\ \A k \in 1..2 : textBlocks'[k].text = Chars("x")]_vars

\* C24 witness: the file with two tags on one line was imported: segments
\* start at both times, and the library holds the line's text twice.
C24_Witness ==
  /\ lastEvent = "lrcImportResume"
  /\ alert = "imported"
  /\ Len(segments) = 3
  /\ segments[2].startTime = 1000
  /\ segments[3].startTime = 3000
  /\ Len(textBlocks) = 2
  /\ textBlocks[1].text = Chars("x")
  /\ textBlocks[2].text = Chars("x")

\* The file with a tag without text at time zero, one later, and a tag with
\* text at time zero.
ZeroAndEmpty == Chars("[00:00.00]\n[00:08.50]\n[00:00.00]z")

\* C25: decode keeps the entry of a tag exactly when the line's stripped
\* text is non-empty or the tag's time is greater than zero: a zero-time tag
\* without text gives no entry, a tag with a time greater than zero gives
\* one even without text.
C25_KeepRule ==
  [][lrcImportResume
       => LET text == lrcRead.text
              entries == parseLRCFile(text).entries
              lines == SplitLines(text)
          IN  /\ \A i \in 1..Len(lines) : \A k \in 1..Len(TagTimes(lines[i])) :
                   LET t == TagTimes(lines[i])[k]
                       stripped == StrippedText(lines[i])
                   IN  /\ ([time |-> t, text |-> stripped] \in Range(entries))
                            <=> (stripped # <<>> \/ t > 0)
                       /\ (t > 0 /\ stripped = <<>>)
                            => \E j \in 1..Len(entries) :
                                 entries[j].time = t /\ entries[j].text = <<>>
              /\ \A j \in 1..Len(entries) :
                   entries[j].text # <<>> \/ entries[j].time > 0
              /\ text = ZeroAndEmpty
                   => /\ entries = <<[time |-> 0, text |-> Chars("z")],
                                     [time |-> 8500, text |-> <<>>]>>
                      /\ alert' = "imported"]_vars

\* C25 witness: the file was imported whose tags without text are at time
\* zero and at 8.50 s: the second segment starts at 8.50 s without text, and
\* the library holds only the text of the other zero-time tag.
C25_Witness ==
  /\ lastEvent = "lrcImportResume"
  /\ alert = "imported"
  /\ Len(segments) = 2
  /\ segments[2].startTime = 8500
  /\ segments[2].textId = NULL
  /\ Len(textBlocks) = 1
  /\ textBlocks[1].text = Chars("z")
  /\ segments[1].textId = textBlocks[1].id

\* The (time, text) pairs of the tags of a file that the keep rule lets
\* through, in file order: line by line, and tag by tag within a line.
KeptPairs(text) ==
  LET lines == SplitLines(text)
      pairsOf(line) ==
        [k \in 1..Len(TagTimes(line)) |->
           [time |-> TagTimes(line)[k], text |-> StrippedText(line)]]
      RECURSIVE from(_)
      from(i) == IF i > Len(lines) THEN <<>> ELSE pairsOf(lines[i]) \o from(i + 1)
  IN  SelectSeq(from(1), LAMBDA e : e.text # <<>> \/ e.time > 0)

\* The position of the first occurrence of e in seq.
FirstAt(seq, e) == CHOOSE i \in 1..Len(seq) : seq[i] = e /\ \A j \in 1..(i - 1) : seq[j] # e

\* The file with times out of order, two texts at one time and a line twice.
OutOfOrder == Chars("[00:05.00]b\n[00:02.00]c\n[00:05.00]a\n\n[00:02.00]c")

\* C26: the entries decode returns hold no (time, text) pair twice, hold
\* every pair that the keep rule let through, and are sorted by
\* non-decreasing time, those of equal time in their file order.
C26_UniqueSorted ==
  [][lrcImportResume
       => LET text == lrcRead.text
              entries == parseLRCFile(text).entries
              kept == KeptPairs(text)
          IN  /\ \A i, j \in 1..Len(entries) : i # j => entries[i] # entries[j]
              /\ Range(entries) = Range(kept)
              /\ \A i, j \in 1..Len(entries) :
                   i < j => /\ entries[i].time <= entries[j].time
                            /\ entries[i].time = entries[j].time
                                 => FirstAt(kept, entries[i]) < FirstAt(kept, entries[j])
              /\ text = OutOfOrder
                   => /\ Len(kept) = 4
                      /\ entries = <<[time |-> 2000, text |-> Chars("c")],
                                     [time |-> 5000, text |-> Chars("b")],
                                     [time |-> 5000, text |-> Chars("a")]>>
                      /\ alert' = "imported"]_vars

\* C26 witness: the file with times out of order and a repeated line was
\* imported: the library holds c, b, a.
C26_Witness ==
  /\ lastEvent = "lrcImportResume"
  /\ alert = "imported"
  /\ Len(textBlocks) = 3
  /\ textBlocks[1].text = Chars("c")
  /\ textBlocks[2].text = Chars("b")
  /\ textBlocks[3].text = Chars("a")
  /\ segments[2].startTime = 2000

\* C27: a successful import replaces the library by one entry with a fresh
\* id per decoded entry with non-empty text, in the entries' order, also
\* where two entries have the same text; no entry of the library it replaces
\* remains.
C27_ImportedLibrary ==
  [][(lrcImportResume /\ alert' = "imported")
       => LET entries == parseLRCFile(lrcRead.text).entries
              withText == {j \in 1..Len(entries) : entries[j].text # <<>>}
              nth(k) == CHOOSE j \in withText :
                          Cardinality({h \in withText : h < j}) = k - 1
          IN  /\ Len(textBlocks') = Cardinality(withText)
              /\ \A k \in 1..Len(textBlocks') :
                   /\ textBlocks'[k].text = entries[nth(k)].text
                   /\ textBlocks'[k].id # NULL
                   /\ textBlocks'[k].id \notin UsedBlockIds(segments, textBlocks)
                   /\ textBlocks'[k].id \notin SampleIds
                   /\ \A h \in 1..(k - 1) : textBlocks'[h].id # textBlocks'[k].id
              /\ Range(textBlocks') \cap Range(textBlocks) = {}
              /\ lrcRead.text = TwoTagsOneText
                   => /\ Len(textBlocks') = 2
                      /\ textBlocks'[1].text = textBlocks'[2].text]_vars

\* C27 witness: with the two sample texts still on screen, the import of the
\* file with one text at two times has put that text twice, under two ids,
\* in the place of the samples.
C27_Witness ==
  /\ lastEvent = "lrcImportResume"
  /\ alert = "imported"
  /\ renderedTextBlocks = SampleBlocks
  /\ Len(textBlocks) = 2
  /\ textBlocks[1].text = Chars("x")
  /\ textBlocks[2].text = Chars("x")
  /\ textBlocks[1].id # textBlocks[2].id

\* The index, counted from 0, of the segment of segs that has time strictly
\* inside.
IndexInside(segs, time) ==
  (CHOOSE k \in 1..Len(segs) : segs[k].startTime < time /\ time < segs[k].endTime) - 1

\* C28: a merge at the index of the segment that the split right before it
\* has split restores the segment list as it was before the split:
\* boundaries, text references and ids.
C28_SplitThenMerge ==
  [][\A i \in 0..MaxSegments :
       (/\ mergeSegments(i)
        /\ lastEvent = "splitSegment"
        /\ splitFrom # <<>>
        /\ i = IndexInside(splitFrom, currentTime))
         => /\ segments' = splitFrom
            /\ error' = "none"]_vars

\* C28 witness: a segment with a text was split and merged again, and the
\* segments are those from before the split.
C28_Witness ==
  /\ lastEvent = "mergeSegments"
  /\ splitFrom # <<>>
  /\ segments = splitFrom
  /\ Len(segments) = 2
  /\ \E k \in 1..2 : /\ segments[k].startTime < currentTime
                     /\ currentTime < segments[k].endTime
                     /\ segments[k].textId # NULL

\* C29: split, merge, text assignment and video load (file selection and
\* metadata) never change the text library; add, update, reorder and bulk
\* add never change the segments; a step that changes both is a delete or a
\* successful LRC import.
C29_Frames ==
  [][/\ (\/ lastEvent' = "splitSegment" /\ splitSegment
         \/ lastEvent' = "mergeSegments"
              /\ \E i \in 0..MaxSegments : mergeSegments(i)
         \/ lastEvent' = "updateSegmentText"
              /\ \E sid \in SegmentIds(segments), tid \in BlockIds(textBlocks) \cup {NULL} :
                   updateSegmentText(sid, tid)
         \/ lastEvent' = "handleVideoUpload"
              /\ \E d \in Durations : handleVideoUpload(d)
         \/ lastEvent' = "handleLoadedMetadata" /\ handleLoadedMetadata)
          => textBlocks' = textBlocks
     /\ (\/ lastEvent' = "addTextBlock" /\ addTextBlock
         \/ lastEvent' = "updateTextBlock"
              /\ \E id \in CallableBlockIds, text \in EditTexts : updateTextBlock(id, text)
         \/ lastEvent' = "handleTextBlockDrop"
              /\ \E i, j \in 0..(MaxBlocks + 1) : handleTextBlockDrop(i, j)
         \/ lastEvent' = "handleBulkImport"
              /\ \E rawText \in BulkTexts : handleBulkImport(rawText))
          => segments' = segments
     /\ (textBlocks' # textBlocks /\ segments' # segments)
          => \/ \E id \in CallableBlockIds : deleteTextBlock(id)
             \/ lrcImportResume /\ alert' = "imported"]_vars

\* C29 witness: the two sample texts were put in the other order while the
\* only segment kept its reference to the first of them.
C29_Witness ==
  /\ lastEvent = "handleTextBlockDrop"
  /\ Len(textBlocks) = 2
  /\ textBlocks[1] = SampleBlocks[2]
  /\ textBlocks[2] = SampleBlocks[1]
  /\ Len(segments) = 1
  /\ segments[1].textId = SampleBlocks[1].id

\* Hundredths of a second printed as toFixed(2) prints them.
HundredthsString(cs) ==
  IntToStr(cs \div 100) \o <<".">> \o PadStart(IntToStr(cs % 100), 2)

\* The tags export can write for a start time t (ms): the seconds field is
\* rounded to the nearest hundredth, to either side from half a hundredth.
TagChoices(t) ==
  LET m == t \div (60 * MsPerSecond)
      rest == t % (60 * MsPerSecond)
      fields == IF rest % 10 = 5
                  THEN {HundredthsString((rest - 5) \div 10),
                        HundredthsString((rest + 5) \div 10)}
                  ELSE {HundredthsString((rest + 5) \div 10)}
  IN  {<<"[">> \o PadStart(IntToStr(m), 2) \o <<":">> \o PadStart(f, 5) \o <<"]">> :
         f \in fields}

\* The time (ms) decode reads from a tag: minutes * 60 + seconds.
DecodedTime(tag) ==
  MatchTagAt(tag, 1).minutes * 60 * MsPerSecond + MatchTagAt(tag, 1).ms

\* C30: the tag export writes for a segment's start time t decodes to a time
\* less than 0.01 s from t, whichever way half a hundredth is rounded and
\* also where the seconds field is printed as 60.00.
C30_TagRoundTrip ==
  lastEvent = "downloadLRC"
    => \A k \in 1..Len(segments) :
         LET t == segments[k].startTime
             line == SplitLines(download)[k]
         IN  /\ Len(SplitLines(download)) = Len(segments)
             /\ MatchTagAt(line, 1).ok
             /\ Abs(DecodedTime(line) - t) < Tolerance
             /\ SubSeq(line, 1, MatchTagAt(line, 1).next - 1) \in TagChoices(t)
             /\ \A tag \in TagChoices(t) :
                  /\ MatchTagAt(tag, 1).ok
                  /\ MatchTagAt(tag, 1).next = Len(tag) + 1
                  /\ Abs(DecodedTime(tag) - t) < Tolerance

\* C30 witness: a file was exported with a segment starting at 59.996 s, its
\* line tagged [00:60.00], and with one starting at 1:03.40.
C30_Witness ==
  /\ lastEvent = "downloadLRC"
  /\ Len(segments) = 3
  /\ segments[2].startTime = 59996
  /\ StartsWith(SplitLines(download)[2], Chars("[00:60.00]"))
  /\ segments[3].startTime = 63400

====
